---- MODULE Spec2Model ----
(***************************************************************************)
(* A model of the in-memory posts server of main.go.                       *)
(*                                                                         *)
(* The program's state is the package-level map posts, the counter nextID  *)
(* and the mutex postsMu.  net/http runs every request in a goroutine of   *)
(* its own; a goroutine is modelled as a process that takes one request,   *)
(* walks through the handler statement by statement and returns.           *)
(* The variables marked history record what the clients have seen; no      *)
(* handler reads them.                                                     *)
(***************************************************************************)
EXTENDS Integers, Sequences, FiniteSets, TLC

\* ------------------------------------------------------------------ bounds
\* Number of goroutines serving requests at the same time.
NumProcs == 2
\* Number of requests issued in one behaviour.
MaxReqs == 4

Procs == 1..NumProcs

\* ----------------------------------------------------------- HTTP statuses
StatusOK == 200
StatusCreated == 201
StatusBadRequest == 400
StatusNotFound == 404
StatusMethodNotAllowed == 405
StatusInternalServerError == 500

\* --------------------------------------------------------------- type Post
\* type Post struct { ID int; Body string }, and its zero value (var p Post).
Post(id, body) == [ID |-> id, Body |-> body]
ZeroPost == Post(0, "")

\* ---------------------------------------------------------------- requests
\* A request payload is what r.Body delivers: either the read fails, or the
\* bytes are not JSON, or they are a JSON value.  A JSON object is the
\* function from its member names to their values.
JNum(n) == [type |-> "number", num |-> n, str |-> ""]
JStr(s) == [type |-> "string", num |-> 0, str |-> s]
NoFields == [n \in {} |-> JNum(0)]
Obj(fields) == [kind |-> "object", fields |-> fields]
Unreadable == [kind |-> "unreadable", fields |-> NoFields]
Malformed == [kind |-> "malformed", fields |-> NoFields]
JNull == [kind |-> "null", fields |-> NoFields]
NoPayload == [kind |-> "empty", fields |-> NoFields]

BodyOnly(s) == Obj([n \in {"body"} |-> JStr(s)])
IdAndBody(i, s) == Obj([n \in {"id", "body"} |-> IF n = "id" THEN JNum(i) ELSE JStr(s)])
BodyNumber == Obj([n \in {"body"} |-> JNum(5)])

\* The payloads the clients send with POST /posts.
Payloads ==
    { Unreadable, Malformed, JNull, BodyNumber, BodyOnly("hello"), IdAndBody(7, "world") }

\* The text after "/posts/" in the URL path, one character per element.
Segments ==
    { <<"1">>, <<"0", "2">>, <<"a">>, <<"-", "1">>, <<>> }

Root == "/posts"
Item == "/posts/"

Request(method, path, seg, payload) ==
    [method |-> method, path |-> path, seg |-> seg, payload |-> payload]

Requests ==
    { Request(m, Root, <<>>, NoPayload) : m \in {"GET", "PUT"} }
    \cup { Request("POST", Root, <<>>, b) : b \in Payloads }
    \cup { Request(m, Item, s, NoPayload) : m \in {"GET", "DELETE", "PUT"}, s \in Segments }

NoRequest == Request("", "", <<>>, NoPayload)

\* ------------------------------------------------------------ strconv.Atoi
Digits == <<"0", "1", "2", "3", "4", "5", "6", "7", "8", "9">>
IsDigit(c) == \E i \in 1..Len(Digits) : Digits[i] = c
DigitVal(c) == (CHOOSE i \in 1..Len(Digits) : Digits[i] = c) - 1

RECURSIVE DecimalValue(_)
DecimalValue(s) ==
    IF s = <<>> THEN 0
    ELSE 10 * DecimalValue(SubSeq(s, 1, Len(s) - 1)) + DigitVal(s[Len(s)])

\* Atoi accepts an optional sign followed by one or more decimal digits.
Atoi(s) ==
    LET signed == s # <<>> /\ s[1] \in {"+", "-"}
        ds == IF signed THEN Tail(s) ELSE s
        good == ds # <<>> /\ \A i \in 1..Len(ds) : IsDigit(ds[i])
    IN  IF ~good THEN [err |-> TRUE, id |-> 0]
        ELSE [err |-> FALSE,
              id |-> IF signed /\ s[1] = "-" THEN 0 - DecimalValue(ds) ELSE DecimalValue(ds)]

\* ------------------------------------------- ioutil.ReadAll, json.Unmarshal
ReadAll(payload) == [err |-> payload.kind = "unreadable"]

\* json.Unmarshal(body, &p): a syntax error and a value of the wrong JSON type
\* are errors; null leaves p alone; an object sets the fields it names.
Unmarshal(payload, p) ==
    CASE payload.kind = "null" -> [err |-> FALSE, p |-> p]
      [] payload.kind = "object" ->
            LET f == payload.fields
                hasId == "id" \in DOMAIN f
                hasBody == "body" \in DOMAIN f
                idOk == hasId /\ f["id"].type = "number"
                bodyOk == hasBody /\ f["body"].type = "string"
            IN  [err |-> (hasId /\ ~idOk) \/ (hasBody /\ ~bodyOk),
                 p |-> Post(IF idOk THEN f["id"].num ELSE p.ID,
                            IF bodyOk THEN f["body"].str ELSE p.Body)]
      [] OTHER -> [err |-> TRUE, p |-> p]

\* ---------------------------------------------------------------- responses
\* The http.ResponseWriter of a request: status 0 until the header is written.
Response(status, ctype, shape, content) ==
    [status |-> status, ctype |-> ctype, shape |-> shape, content |-> content]
NoResponse == Response(0, "", "none", <<>>)
\* http.Error(w, msg, code)
HttpError(code) == Response(code, "text/plain", "text", <<>>)
\* w.Header().Set("Content-Type", "application/json"); json.NewEncoder(w).Encode(v)
JsonObject(status, p) == Response(status, "application/json", "object", <<p>>)
JsonArray(status, ps) == Response(status, "application/json", "array", ps)


\* -------------------------------------------------------------------- state
VARIABLES
    posts,      \* var posts = make(map[int]Post)
    nextID,     \* var nextID = 1
    postsMu,    \* var postsMu sync.Mutex: TRUE while locked
    pc,         \* per goroutine: the statement it is about to execute
    req,        \* per goroutine: r *http.Request
    w,          \* per goroutine: w http.ResponseWriter
    id,         \* per goroutine: the id parsed by postHandler
    p,          \* per goroutine: the local p of the handler
    ok,         \* per goroutine: the local ok of the handler
    ps,         \* per goroutine: the local slice ps of handleGetPosts
    holds,      \* per goroutine: it has locked postsMu and not yet unlocked it
    reqs,       \* history: the number of requests issued so far
    ticket,     \* history: per goroutine, its POST was the ticket-th to lock postsMu
    issued,     \* history: issued[i] is the id the i-th POST to lock postsMu took
                \* from nextID (0 until it has taken it)
    created,    \* history: the 201 responses the clients have received, in order
    deleted,    \* history: the ids whose DELETE was answered 200, in order
    seqStore,   \* history: posts and nextID of a store on which each request is
                \* run whole, in one step, when its handler acquires postsMu
    expect      \* history: per goroutine, the response that run of its request gave

vars ==
    << posts, nextID, postsMu, pc, req, w, id, p, ok, ps, holds,
       reqs, ticket, issued, created, deleted, seqStore, expect >>

store == << posts, nextID >>
locals == << id, p, ok, ps >>
history == << issued, created, deleted >>
sequential == << seqStore, expect >>

EmptyMap == [k \in {} |-> ZeroPost]

\* The body member a POST payload carries ("" when it carries none).
SentBody(payload) ==
    IF payload.kind = "object" /\ "body" \in DOMAIN payload.fields
       /\ payload.fields["body"].type = "string"
    THEN payload.fields["body"].str
    ELSE ""

Init ==
    /\ posts = EmptyMap
    /\ nextID = 1
    /\ postsMu = FALSE
    /\ pc = [self \in Procs |-> "idle"]
    /\ req = [self \in Procs |-> NoRequest]
    /\ w = [self \in Procs |-> NoResponse]
    /\ id = [self \in Procs |-> 0]
    /\ p = [self \in Procs |-> ZeroPost]
    /\ ok = [self \in Procs |-> FALSE]
    /\ ps = [self \in Procs |-> <<>>]
    /\ holds = [self \in Procs |-> FALSE]
    /\ reqs = 0
    /\ ticket = [self \in Procs |-> 0]
    /\ issued = <<>>
    /\ created = <<>>
    /\ deleted = <<>>
    /\ seqStore = [posts |-> EmptyMap, nextID |-> 1]
    /\ expect = [self \in Procs |-> NoResponse]

\* ------------------------------------------------------------------ helpers
\* A handler returns: its locals die and the response in w is complete.
Return(self) ==
    /\ pc' = [pc EXCEPT ![self] = "done"]
    /\ id' = [id EXCEPT ![self] = 0]
    /\ p' = [p EXCEPT ![self] = ZeroPost]
    /\ ok' = [ok EXCEPT ![self] = FALSE]
    /\ ps' = [ps EXCEPT ![self] = <<>>]

Goto(self, label) == pc' = [pc EXCEPT ![self] = label]

\* for _, p := range posts: the map is visited in an order Go does not fix.
Orderings(m) ==
    { [i \in 1..Cardinality(DOMAIN m) |-> m[ks[i]]] :
        ks \in { f \in [1..Cardinality(DOMAIN m) -> DOMAIN m] :
                    \A i, j \in DOMAIN f : i # j => f[i] # f[j] } }

\* A handler run whole, as one step, on the store st: what postsHandler or
\* postHandler does with request r when no other request runs in between.
\* The result is the store it leaves and the response it writes (the Posts of
\* GET /posts in one of the orders range may take).
SeqRun(r, st) ==
    LET same(resp) == [store |-> st, resp |-> resp]
    IN  IF r.path = Root
        THEN IF r.method = "GET"
             THEN same(JsonArray(StatusOK, CHOOSE s \in Orderings(st.posts) : TRUE))
             ELSE IF r.method = "POST"
             THEN IF ReadAll(r.payload).err
                  THEN same(HttpError(StatusInternalServerError))
                  ELSE IF Unmarshal(r.payload, ZeroPost).err
                  THEN same(HttpError(StatusBadRequest))
                  ELSE LET q == [Unmarshal(r.payload, ZeroPost).p EXCEPT !.ID = st.nextID]
                       IN  [store |-> [posts |-> [k \in DOMAIN st.posts \cup {q.ID} |->
                                                     IF k = q.ID THEN q ELSE st.posts[k]],
                                       nextID |-> st.nextID + 1],
                            resp |-> JsonObject(StatusCreated, q)]
             ELSE same(HttpError(StatusMethodNotAllowed))
        ELSE LET a == Atoi(r.seg)
             IN  IF a.err
                 THEN same(HttpError(StatusBadRequest))
                 ELSE IF r.method = "GET"
                 THEN IF a.id \in DOMAIN st.posts
                      THEN same(JsonObject(StatusOK, st.posts[a.id]))
                      ELSE same(HttpError(StatusNotFound))
                 ELSE IF r.method = "DELETE"
                 THEN IF a.id \in DOMAIN st.posts
                      THEN [store |-> [posts |-> [k \in DOMAIN st.posts \ {a.id} |-> st.posts[k]],
                                       nextID |-> st.nextID],
                            resp |-> Response(StatusOK, "", "empty", <<>>)]
                      ELSE same(HttpError(StatusNotFound))
                 ELSE same(HttpError(StatusMethodNotAllowed))

\* The order of lock acquisition: the request of the handler that acquires
\* postsMu is run whole on seqStore.
Serialize(self) ==
    /\ seqStore' = SeqRun(req[self], seqStore).store
    /\ expect' = [expect EXCEPT ![self] = SeqRun(req[self], seqStore).resp]

\* Lock as it would be if it did not wait for the mutex to be free.
LockDoesNotWait(self) ==
    /\ postsMu' = TRUE
    /\ holds' = [holds EXCEPT ![self] = TRUE]
    /\ Serialize(self)

\* postsMu.Lock(): blocks while the mutex is locked, then locks it.
Lock(self) ==
    /\ postsMu = FALSE
    /\ postsMu' = TRUE
    /\ holds' = [holds EXCEPT ![self] = TRUE]
    /\ Serialize(self)

\* defer postsMu.Unlock(): runs when the handler returns.
Unlock(self) ==
    /\ postsMu' = FALSE
    /\ holds' = [holds EXCEPT ![self] = FALSE]

\* --------------------------------------------------------------------- main
\* http.ListenAndServe hands a request to a goroutine; the mux sends the path
\* "/posts" to postsHandler and the paths under "/posts/" to postHandler.
Serve(self) ==
    /\ pc[self] = "idle"
    /\ reqs < MaxReqs
    /\ \E r \in Requests :
        /\ req' = [req EXCEPT ![self] = r]
        /\ Goto(self, IF r.path = Root THEN "postsHandler" ELSE "postHandler")
    /\ reqs' = reqs + 1
    /\ UNCHANGED << store, postsMu, holds, w, locals, ticket, history, sequential >>

\* The server sends the finished response to the client; the goroutine is free.
Finish(self) ==
    /\ pc[self] = "done"
    /\ Goto(self, "idle")
    /\ req' = [req EXCEPT ![self] = NoRequest]
    /\ w' = [w EXCEPT ![self] = NoResponse]
    /\ ticket' = [ticket EXCEPT ![self] = 0]
    /\ expect' = [expect EXCEPT ![self] = NoResponse]
    /\ UNCHANGED << store, postsMu, holds, locals, reqs, history, seqStore >>

\* ------------------------------------------------------------- postsHandler
\* postsHandler with case "POST", "PUT".
postsHandler_PutIsPost(self) ==
    /\ pc[self] = "postsHandler"
    /\ IF req[self].method = "GET"
       THEN /\ Goto(self, "handleGetPosts")
            /\ UNCHANGED << w, locals >>
       ELSE IF req[self].method \in {"POST", "PUT"}
       THEN /\ Goto(self, "handlePostPosts")
            /\ UNCHANGED << w, locals >>
       ELSE /\ w' = [w EXCEPT ![self] = HttpError(StatusMethodNotAllowed)]
            /\ Return(self)
    /\ UNCHANGED << store, postsMu, holds, req, reqs, ticket, history, sequential >>

postsHandler(self) ==
    /\ pc[self] = "postsHandler"
    /\ IF req[self].method = "GET"
       THEN /\ Goto(self, "handleGetPosts")
            /\ UNCHANGED << w, locals >>
       ELSE IF req[self].method = "POST"
       THEN /\ Goto(self, "handlePostPosts")
            /\ UNCHANGED << w, locals >>
       ELSE /\ w' = [w EXCEPT ![self] = HttpError(StatusMethodNotAllowed)]
            /\ Return(self)
    /\ UNCHANGED << store, postsMu, holds, req, reqs, ticket, history, sequential >>

\* -------------------------------------------------------------- postHandler
\* postHandler with id, _ := strconv.Atoi(...): the error is dropped.
postHandler_AtoiUnchecked(self) ==
    /\ pc[self] = "postHandler"
    /\ LET a == Atoi(req[self].seg)
       IN  IF req[self].method = "GET"
           THEN /\ Goto(self, "handleGetPost")
                /\ id' = [id EXCEPT ![self] = a.id]
                /\ UNCHANGED << w, p, ok, ps >>
           ELSE IF req[self].method = "DELETE"
           THEN /\ Goto(self, "handleDeletePost")
                /\ id' = [id EXCEPT ![self] = a.id]
                /\ UNCHANGED << w, p, ok, ps >>
           ELSE /\ w' = [w EXCEPT ![self] = HttpError(StatusMethodNotAllowed)]
                /\ Return(self)
    /\ UNCHANGED << store, postsMu, holds, req, reqs, ticket, history, sequential >>

postHandler(self) ==
    /\ pc[self] = "postHandler"
    /\ LET a == Atoi(req[self].seg)
       IN  IF a.err
           THEN /\ w' = [w EXCEPT ![self] = HttpError(StatusBadRequest)]
                /\ Return(self)
           ELSE IF req[self].method = "GET"
           THEN /\ Goto(self, "handleGetPost")
                /\ id' = [id EXCEPT ![self] = a.id]
                /\ UNCHANGED << w, p, ok, ps >>
           ELSE IF req[self].method = "DELETE"
           THEN /\ Goto(self, "handleDeletePost")
                /\ id' = [id EXCEPT ![self] = a.id]
                /\ UNCHANGED << w, p, ok, ps >>
           ELSE /\ w' = [w EXCEPT ![self] = HttpError(StatusMethodNotAllowed)]
                /\ Return(self)
    /\ UNCHANGED << store, postsMu, holds, req, reqs, ticket, history, sequential >>


\* ----------------------------------------------------------- handleGetPosts
handleGetPosts_Lock(self) ==
    /\ pc[self] = "handleGetPosts"
    /\ Lock(self)
    /\ Goto(self, "handleGetPosts_range")
    /\ UNCHANGED << store, req, w, locals, reqs, ticket, history >>

\* handleGetPosts with make([]Post, len(posts)): len(posts) zero Posts come first.
handleGetPosts_RangeAfterZeros(self) ==
    /\ pc[self] = "handleGetPosts_range"
    /\ \E s \in Orderings(posts) :
          ps' = [ps EXCEPT ![self] = [i \in 1..Len(s) |-> ZeroPost] \o s]
    /\ Goto(self, "handleGetPosts_encode")
    /\ UNCHANGED << store, postsMu, holds, req, w, id, p, ok, reqs, ticket, history, sequential >>

\* ps := make([]Post, 0, len(posts)); for _, p := range posts { append }
handleGetPosts_Range(self) ==
    /\ pc[self] = "handleGetPosts_range"
    /\ \E s \in Orderings(posts) : ps' = [ps EXCEPT ![self] = s]
    /\ Goto(self, "handleGetPosts_encode")
    /\ UNCHANGED << store, postsMu, holds, req, w, id, p, ok, reqs, ticket, history, sequential >>

\* fmt.Println(ps); Content-Type; json.NewEncoder(w).Encode(ps)
handleGetPosts_Encode(self) ==
    /\ pc[self] = "handleGetPosts_encode"
    /\ w' = [w EXCEPT ![self] = JsonArray(StatusOK, ps[self])]
    /\ Goto(self, "handleGetPosts_unlock")
    /\ UNCHANGED << store, postsMu, holds, req, locals, reqs, ticket, history, sequential >>

handleGetPosts_Unlock(self) ==
    /\ pc[self] = "handleGetPosts_unlock"
    /\ Unlock(self)
    /\ Return(self)
    /\ UNCHANGED << store, req, w, reqs, ticket, history, sequential >>

\* ---------------------------------------------------------- handlePostPosts
\* var p Post; body, err := ioutil.ReadAll(r.Body)
handlePostPosts_ReadAll(self) ==
    /\ pc[self] = "handlePostPosts"
    /\ IF ReadAll(req[self].payload).err
       THEN /\ w' = [w EXCEPT ![self] = HttpError(StatusInternalServerError)]
            /\ Return(self)
       ELSE /\ Goto(self, "handlePostPosts_unmarshal")
            /\ UNCHANGED << w, locals >>
    /\ UNCHANGED << store, postsMu, holds, req, reqs, ticket, history, sequential >>

\* handlePostPosts dropping the error of json.Unmarshal.
handlePostPosts_UnmarshalUnchecked(self) ==
    /\ pc[self] = "handlePostPosts_unmarshal"
    /\ p' = [p EXCEPT ![self] = Unmarshal(req[self].payload, p[self]).p]
    /\ Goto(self, "handlePostPosts_lock")
    /\ UNCHANGED << store, postsMu, holds, req, w, id, ok, ps, reqs, ticket, history, sequential >>

\* handlePostPosts taking its id from the counter before it parses the body.
handlePostPosts_UnmarshalConsumesId(self) ==
    /\ pc[self] = "handlePostPosts_unmarshal"
    /\ LET u == Unmarshal(req[self].payload, p[self])
       IN  IF u.err
           THEN /\ w' = [w EXCEPT ![self] = HttpError(StatusBadRequest)]
                /\ Return(self)
                /\ nextID' = nextID + 1
           ELSE /\ p' = [p EXCEPT ![self] = u.p]
                /\ Goto(self, "handlePostPosts_lock")
                /\ UNCHANGED << w, id, ok, ps, nextID >>
    /\ UNCHANGED << posts, postsMu, holds, req, reqs, ticket, history, sequential >>

\* if err := json.Unmarshal(body, &p); err != nil
handlePostPosts_Unmarshal(self) ==
    /\ pc[self] = "handlePostPosts_unmarshal"
    /\ LET u == Unmarshal(req[self].payload, p[self])
       IN  IF u.err
           THEN /\ w' = [w EXCEPT ![self] = HttpError(StatusBadRequest)]
                /\ Return(self)
           ELSE /\ p' = [p EXCEPT ![self] = u.p]
                /\ Goto(self, "handlePostPosts_lock")
                /\ UNCHANGED << w, id, ok, ps >>
    /\ UNCHANGED << store, postsMu, holds, req, reqs, ticket, history, sequential >>

handlePostPosts_Lock(self) ==
    /\ pc[self] = "handlePostPosts_lock"
    /\ Lock(self)
    /\ Goto(self, "handlePostPosts_id")
    /\ issued' = Append(issued, 0)
    /\ ticket' = [ticket EXCEPT ![self] = Len(issued) + 1]
    /\ UNCHANGED << store, req, w, locals, reqs, created, deleted >>

\* handlePostPosts with if p.ID == 0 { p.ID = nextID }: an id the caller sent
\* is kept.
handlePostPosts_IDUnlessSent(self) ==
    /\ pc[self] = "handlePostPosts_id"
    /\ p' = [p EXCEPT ![self].ID = IF p[self].ID = 0 THEN nextID ELSE p[self].ID]
    /\ Goto(self, "handlePostPosts_incr")
    /\ issued' = [issued EXCEPT ![ticket[self]] = p'[self].ID]
    /\ UNCHANGED << store, postsMu, holds, req, w, id, ok, ps, reqs, ticket,
                    created, deleted, sequential >>

\* p.ID = nextID
handlePostPosts_ID(self) ==
    /\ pc[self] = "handlePostPosts_id"
    /\ p' = [p EXCEPT ![self].ID = nextID]
    /\ Goto(self, "handlePostPosts_incr")
    /\ issued' = [issued EXCEPT ![ticket[self]] = nextID]
    /\ UNCHANGED << store, postsMu, holds, req, w, id, ok, ps, reqs, ticket,
                    created, deleted, sequential >>

\* handlePostPosts without nextID++.
handlePostPosts_NoIncr(self) ==
    /\ pc[self] = "handlePostPosts_incr"
    /\ Goto(self, "handlePostPosts_store")
    /\ UNCHANGED << store, postsMu, holds, req, w, locals, reqs, ticket, history, sequential >>

\* handlePostPosts with nextID += 2.
handlePostPosts_IncrTwice(self) ==
    /\ pc[self] = "handlePostPosts_incr"
    /\ nextID' = nextID + 2
    /\ Goto(self, "handlePostPosts_store")
    /\ UNCHANGED << posts, postsMu, holds, req, w, locals, reqs, ticket, history, sequential >>

\* nextID++
handlePostPosts_Incr(self) ==
    /\ pc[self] = "handlePostPosts_incr"
    /\ nextID' = nextID + 1
    /\ Goto(self, "handlePostPosts_store")
    /\ UNCHANGED << posts, postsMu, holds, req, w, locals, reqs, ticket, history, sequential >>

\* handlePostPosts storing under the counter, which is already incremented.
handlePostPosts_StoreAtNextID(self) ==
    /\ pc[self] = "handlePostPosts_store"
    /\ posts' = [k \in DOMAIN posts \cup {nextID} |->
                    IF k = nextID THEN p[self] ELSE posts[k]]
    /\ Goto(self, "handlePostPosts_encode")
    /\ UNCHANGED << nextID, postsMu, holds, req, w, locals, reqs, ticket, history, sequential >>

\* posts[p.ID] = p
handlePostPosts_Store(self) ==
    /\ pc[self] = "handlePostPosts_store"
    /\ posts' = [k \in DOMAIN posts \cup {p[self].ID} |->
                    IF k = p[self].ID THEN p[self] ELSE posts[k]]
    /\ Goto(self, "handlePostPosts_encode")
    /\ UNCHANGED << nextID, postsMu, holds, req, w, locals, reqs, ticket, history, sequential >>

\* Content-Type; w.WriteHeader(http.StatusCreated); json.NewEncoder(w).Encode(p)
handlePostPosts_Encode(self) ==
    /\ pc[self] = "handlePostPosts_encode"
    /\ w' = [w EXCEPT ![self] = JsonObject(StatusCreated, p[self])]
    /\ Goto(self, "handlePostPosts_unlock")
    /\ UNCHANGED << store, postsMu, holds, req, locals, reqs, ticket, history, sequential >>

\* The handler returns and the client receives the 201 response.
handlePostPosts_Unlock(self) ==
    /\ pc[self] = "handlePostPosts_unlock"
    /\ Unlock(self)
    /\ Return(self)
    /\ created' = Append(created, [id |-> w[self].content[1].ID,
                                   body |-> w[self].content[1].Body,
                                   sent |-> SentBody(req[self].payload)])
    /\ UNCHANGED << store, req, w, reqs, ticket, issued, deleted, sequential >>

\* ------------------------------------------------------------ handleGetPost
handleGetPost_Lock(self) ==
    /\ pc[self] = "handleGetPost"
    /\ Lock(self)
    /\ Goto(self, "handleGetPost_lookup")
    /\ UNCHANGED << store, req, w, locals, reqs, ticket, history >>

\* handleGetPost whose lookup of an absent id leaves a zero Post under it.
handleGetPost_LookupInserts(self) ==
    /\ pc[self] = "handleGetPost_lookup"
    /\ ok' = [ok EXCEPT ![self] = id[self] \in DOMAIN posts]
    /\ p' = [p EXCEPT ![self] = IF id[self] \in DOMAIN posts THEN posts[id[self]] ELSE ZeroPost]
    /\ posts' = [k \in DOMAIN posts \cup {id[self]} |->
                    IF k \in DOMAIN posts THEN posts[k] ELSE ZeroPost]
    /\ Goto(self, "handleGetPost_respond")
    /\ UNCHANGED << nextID, postsMu, holds, req, w, id, ps, reqs, ticket, history, sequential >>

\* p, ok := posts[id]
handleGetPost_Lookup(self) ==
    /\ pc[self] = "handleGetPost_lookup"
    /\ ok' = [ok EXCEPT ![self] = id[self] \in DOMAIN posts]
    /\ p' = [p EXCEPT ![self] = IF id[self] \in DOMAIN posts THEN posts[id[self]] ELSE ZeroPost]
    /\ Goto(self, "handleGetPost_respond")
    /\ UNCHANGED << store, postsMu, holds, req, w, id, ps, reqs, ticket, history, sequential >>

\* handleGetPost with an Unlock at the end of the 200 path only, not deferred.
handleGetPost_RespondNoDefer(self) ==
    /\ pc[self] = "handleGetPost_respond"
    /\ IF ~ok[self]
       THEN /\ w' = [w EXCEPT ![self] = HttpError(StatusNotFound)]
            /\ Return(self)
       ELSE /\ w' = [w EXCEPT ![self] = JsonObject(StatusOK, p[self])]
            /\ Goto(self, "handleGetPost_unlock")
            /\ UNCHANGED locals
    /\ UNCHANGED << store, postsMu, holds, req, reqs, ticket, history, sequential >>

\* if !ok { http.Error(404); return }; Content-Type; Encode(p)
handleGetPost_Respond(self) ==
    /\ pc[self] = "handleGetPost_respond"
    /\ w' = [w EXCEPT ![self] = IF ~ok[self] THEN HttpError(StatusNotFound)
                                ELSE JsonObject(StatusOK, p[self])]
    /\ Goto(self, "handleGetPost_unlock")
    /\ UNCHANGED << store, postsMu, holds, req, locals, reqs, ticket, history, sequential >>

handleGetPost_Unlock(self) ==
    /\ pc[self] = "handleGetPost_unlock"
    /\ Unlock(self)
    /\ Return(self)
    /\ UNCHANGED << store, req, w, reqs, ticket, history, sequential >>

\* --------------------------------------------------------- handleDeletePost
handleDeletePost_Lock(self) ==
    /\ pc[self] = "handleDeletePost"
    /\ Lock(self)
    /\ Goto(self, "handleDeletePost_lookup")
    /\ UNCHANGED << store, req, w, locals, reqs, ticket, history >>

\* _, ok := posts[id]
handleDeletePost_Lookup(self) ==
    /\ pc[self] = "handleDeletePost_lookup"
    /\ ok' = [ok EXCEPT ![self] = id[self] \in DOMAIN posts]
    /\ Goto(self, "handleDeletePost_check")
    /\ UNCHANGED << store, postsMu, holds, req, w, id, p, ps, reqs, ticket, history, sequential >>

\* if !ok { http.Error(404); return }
handleDeletePost_NotFound(self) ==
    /\ pc[self] = "handleDeletePost_check"
    /\ ~ok[self]
    /\ w' = [w EXCEPT ![self] = HttpError(StatusNotFound)]
    /\ Goto(self, "handleDeletePost_unlock")
    /\ UNCHANGED << store, postsMu, holds, req, locals, reqs, ticket, history, sequential >>

\* handleDeletePost giving the id back to the counter.
handleDeletePost_DeleteAndReuse(self) ==
    /\ pc[self] = "handleDeletePost_check"
    /\ ok[self]
    /\ posts' = [k \in DOMAIN posts \ {id[self]} |-> posts[k]]
    /\ nextID' = id[self]
    /\ Goto(self, "handleDeletePost_writeheader")
    /\ UNCHANGED << postsMu, holds, req, w, locals, reqs, ticket, history, sequential >>

\* handleDeletePost without delete(posts, id).
handleDeletePost_NoDelete(self) ==
    /\ pc[self] = "handleDeletePost_check"
    /\ ok[self]
    /\ Goto(self, "handleDeletePost_writeheader")
    /\ UNCHANGED << store, postsMu, holds, req, w, locals, reqs, ticket, history, sequential >>

\* delete(posts, id)
handleDeletePost_Delete(self) ==
    /\ pc[self] = "handleDeletePost_check"
    /\ ok[self]
    /\ posts' = [k \in DOMAIN posts \ {id[self]} |-> posts[k]]
    /\ Goto(self, "handleDeletePost_writeheader")
    /\ UNCHANGED << nextID, postsMu, holds, req, w, locals, reqs, ticket, history, sequential >>

\* w.WriteHeader(http.StatusOK)
handleDeletePost_WriteHeader(self) ==
    /\ pc[self] = "handleDeletePost_writeheader"
    /\ w' = [w EXCEPT ![self] = Response(StatusOK, "", "empty", <<>>)]
    /\ Goto(self, "handleDeletePost_unlock")
    /\ deleted' = Append(deleted, id[self])
    /\ UNCHANGED << store, postsMu, holds, req, locals, reqs, ticket,
                    issued, created, sequential >>

handleDeletePost_Unlock(self) ==
    /\ pc[self] = "handleDeletePost_unlock"
    /\ Unlock(self)
    /\ Return(self)
    /\ UNCHANGED << store, req, w, reqs, ticket, history, sequential >>

\* ------------------------------------------------------------ specification
Next ==
    \E self \in Procs :
        \/ Serve(self)
        \/ Finish(self)
        \/ postsHandler(self)
        \/ postHandler(self)
        \/ handleGetPosts_Lock(self)
        \/ handleGetPosts_Range(self)
        \/ handleGetPosts_Encode(self)
        \/ handleGetPosts_Unlock(self)
        \/ handlePostPosts_ReadAll(self)
        \/ handlePostPosts_Unmarshal(self)
        \/ handlePostPosts_Lock(self)
        \/ handlePostPosts_ID(self)
        \/ handlePostPosts_Incr(self)
        \/ handlePostPosts_Store(self)
        \/ handlePostPosts_Encode(self)
        \/ handlePostPosts_Unlock(self)
        \/ handleGetPost_Lock(self)
        \/ handleGetPost_Lookup(self)
        \/ handleGetPost_Respond(self)
        \/ handleGetPost_Unlock(self)
        \/ handleDeletePost_Lock(self)
        \/ handleDeletePost_Lookup(self)
        \/ handleDeletePost_NotFound(self)
        \/ handleDeletePost_Delete(self)
        \/ handleDeletePost_WriteHeader(self)
        \/ handleDeletePost_Unlock(self)

Spec == Init /\ [][Next]_vars

\* The steps a goroutine takes once it has a request: every action but Serve
\* (no client is obliged to send a request).
HandlerStep(self) ==
    \/ Finish(self) \/ postsHandler(self) \/ postHandler(self)
    \/ handleGetPosts_Range(self) \/ handleGetPosts_Encode(self)
    \/ handleGetPosts_Unlock(self)
    \/ handlePostPosts_ReadAll(self) \/ handlePostPosts_Unmarshal(self)
    \/ handlePostPosts_ID(self) \/ handlePostPosts_Incr(self)
    \/ handlePostPosts_Store(self) \/ handlePostPosts_Encode(self)
    \/ handlePostPosts_Unlock(self)
    \/ handleGetPost_Lookup(self) \/ handleGetPost_Respond(self)
    \/ handleGetPost_Unlock(self)
    \/ handleDeletePost_Lookup(self) \/ handleDeletePost_NotFound(self)
    \/ handleDeletePost_Delete(self) \/ handleDeletePost_WriteHeader(self)
    \/ handleDeletePost_Unlock(self)

LockStep(self) ==
    \/ handleGetPosts_Lock(self) \/ handlePostPosts_Lock(self)
    \/ handleGetPost_Lock(self) \/ handleDeletePost_Lock(self)

\* The Go scheduler runs every runnable goroutine (weak fairness of its
\* steps), and sync.Mutex hands the lock to a goroutine that keeps waiting
\* for it (starvation mode: strong fairness of Lock).
FairSpec ==
    /\ Spec
    /\ \A self \in Procs : WF_vars(HandlerStep(self)) /\ SF_vars(LockStep(self))


\* ----------------------------------------------------- a sequential client
\* Number of requests other clients send once the scenario's are sent.
MaxTail == 1

\* One client sends these requests one after another, each after it has
\* received the response to the one before.
Scenario ==
    << Request("POST", Root, <<>>, BodyOnly("hello")),
       Request("POST", Root, <<>>, BodyOnly("world")),
       Request("GET", Root, <<>>, NoPayload),
       Request("DELETE", Item, <<"1">>, NoPayload),
       Request("GET", Item, <<"1">>, NoPayload),
       Request("GET", Item, <<"a", "b", "c">>, NoPayload) >>

ServeScenario(self) ==
    /\ \A other \in Procs : pc[other] = "idle"
    /\ reqs < Len(Scenario)
    /\ req' = [req EXCEPT ![self] = Scenario[reqs + 1]]
    /\ Goto(self, IF Scenario[reqs + 1].path = Root THEN "postsHandler" ELSE "postHandler")
    /\ reqs' = reqs + 1
    /\ UNCHANGED << store, postsMu, holds, w, locals, ticket, history, sequential >>

\* Afterwards any client may send any request.
ServeAfterScenario(self) ==
    /\ pc[self] = "idle"
    /\ reqs >= Len(Scenario)
    /\ reqs < Len(Scenario) + MaxTail
    /\ \E r \in Requests :
        /\ req' = [req EXCEPT ![self] = r]
        /\ Goto(self, IF r.path = Root THEN "postsHandler" ELSE "postHandler")
    /\ reqs' = reqs + 1
    /\ UNCHANGED << store, postsMu, holds, w, locals, ticket, history, sequential >>

ScenarioNext ==
    \E self \in Procs :
        \/ ServeScenario(self)
        \/ ServeAfterScenario(self)
        \/ HandlerStep(self)
        \/ LockStep(self)

ScenarioSpec == Init /\ [][ScenarioNext]_vars

\* ---------------------------------------------------------------- vocabulary
\* The statements between postsMu.Lock() and the deferred postsMu.Unlock().
CriticalPCs ==
    { "handleGetPosts_range", "handleGetPosts_encode", "handleGetPosts_unlock",
      "handlePostPosts_id", "handlePostPosts_incr", "handlePostPosts_store",
      "handlePostPosts_encode", "handlePostPosts_unlock",
      "handleGetPost_lookup", "handleGetPost_respond", "handleGetPost_unlock",
      "handleDeletePost_lookup", "handleDeletePost_check",
      "handleDeletePost_writeheader", "handleDeletePost_unlock" }

\* The statements that read or write posts or nextID.
AccessPCs ==
    { "handleGetPosts_range", "handlePostPosts_id", "handlePostPosts_incr",
      "handlePostPosts_store", "handleGetPost_lookup", "handleDeletePost_lookup",
      "handleDeletePost_check" }

\* The statements blocked in postsMu.Lock().
LockPCs ==
    { "handleGetPosts", "handlePostPosts_lock", "handleGetPost", "handleDeletePost" }

PostPCs ==
    { "handlePostPosts", "handlePostPosts_unmarshal", "handlePostPosts_lock",
      "handlePostPosts_id", "handlePostPosts_incr", "handlePostPosts_store",
      "handlePostPosts_encode", "handlePostPosts_unlock" }

Range(s) == { s[i] : i \in DOMAIN s }
CreatedIds == { created[i].id : i \in DOMAIN created }
Occurrences(s, x) == Cardinality({ i \in DOMAIN s : s[i] = x })

\* ------------------------------------------------------------------- claims

\* C1: the ids taken by POSTs are strictly increasing in the order in which
\* the POSTs acquired postsMu, so pairwise distinct; the ids returned in 201
\* responses are pairwise distinct and are ids taken that way; no id is issued
\* twice, also after the post that carried it has been deleted.
C1_IdsStrictlyIncreasing ==
    /\ \A i, j \in DOMAIN issued :
          (i < j /\ issued[j] # 0) => (issued[i] # 0 /\ issued[i] < issued[j])
    /\ \A i, j \in DOMAIN created : i # j => created[i].id # created[j].id
    /\ \A i \in DOMAIN created : created[i].id \in Range(issued)
    /\ \A i \in DOMAIN deleted : \A self \in Procs :
          pc[self] = "handlePostPosts_incr" => p[self].ID # deleted[i]

\* C1 witness: a POST has just taken its id after a post was deleted, while
\* another POST waits for the mutex.
C1_Witness ==
    \E self, other \in Procs :
        /\ pc[self] = "handlePostPosts_incr"
        /\ deleted # <<>>
        /\ pc[other] = "handlePostPosts_lock"

\* C2: when no POST is in progress, the K successful POSTs so far have
\* returned exactly the ids 1..K, each once.
C2_IdsAreOneToK ==
    (\A self \in Procs : pc[self] \notin PostPCs)
        => /\ CreatedIds = 1..Len(created)
           /\ \A i, j \in DOMAIN created : i # j => created[i].id # created[j].id

\* C2 witness: three POSTs have succeeded, a POST with a bad body has been
\* answered 400 among them, and no POST is in progress.
C2_Witness ==
    /\ \A self \in Procs : pc[self] \notin PostPCs
    /\ Len(created) = 3
    /\ \E self \in Procs :
          /\ pc[self] = "done"
          /\ req[self].method = "POST"
          /\ w[self].status = StatusBadRequest

\* C3: at most one goroutine is between Lock and Unlock, a goroutine is there
\* exactly when it holds postsMu, and every statement that reads or writes
\* posts or nextID is executed by the goroutine that holds postsMu.
C3_MutualExclusion ==
    /\ Cardinality({ self \in Procs : pc[self] \in CriticalPCs }) <= 1
    /\ \A self \in Procs : pc[self] \in CriticalPCs <=> holds[self]
    /\ \A self \in Procs : pc[self] \in AccessPCs => (holds[self] /\ postsMu)
    /\ postsMu <=> \E self \in Procs : holds[self]

\* C3 witness: one handler is about to write the map while another is blocked
\* in Lock.
C3_Witness ==
    \E self, other \in Procs :
        /\ pc[self] = "handlePostPosts_store"
        /\ pc[other] \in LockPCs


\* C4: a handler that has returned does not hold postsMu, whichever exit it
\* took; and under fair scheduling every request that is being handled
\* eventually completes with a response.
C4_LockReleasedAndRequestsComplete ==
    /\ [](\A self \in Procs : pc[self] \in {"idle", "done"} => ~holds[self])
    /\ [](postsMu => \E self \in Procs : pc[self] \in CriticalPCs)
    /\ \A self \in Procs :
          (pc[self] \notin {"idle", "done"}) ~> (pc[self] = "done" /\ w[self].status # 0)

\* C4 witness: a DELETE has left through its 404 exit and another handler has
\* acquired the mutex after it.
C4_Witness ==
    \E self, other \in Procs :
        /\ pc[self] = "done"
        /\ req[self].method = "DELETE"
        /\ w[self].status = StatusNotFound
        /\ holds[other]


\* C5: when GET /posts/{id} has written its response, a POST has returned
\* that id and no DELETE of it has been answered 200, the response is 200
\* with the Post of that id and the body the POST sent.
C5_GetAfterPost ==
    \A self \in Procs :
        pc[self] = "handleGetPost_unlock" =>
            \A i \in DOMAIN created :
                (created[i].id = id[self] /\ id[self] \notin Range(deleted))
                    => w[self] = JsonObject(StatusOK, Post(id[self], created[i].sent))

\* C5 witness: GET /posts/2 has answered 200 with the body sent, after post 1
\* was deleted, while a DELETE of another id is waiting for the mutex.
C5_Witness ==
    \E self, other \in Procs :
        /\ pc[self] = "handleGetPost_unlock"
        /\ w[self] = JsonObject(StatusOK, Post(2, "world"))
        /\ \E i \in DOMAIN created : created[i].id = 2 /\ created[i].sent = "world"
        /\ pc[other] = "handleDeletePost"
        /\ id[other] # id[self]

\* C6: once DELETE /posts/{id} has been answered 200, a GET of that id that
\* writes its response answers 404, and no second DELETE of that id is
\* answered 200: a DELETE answers 404, or 200 for an id deleted only by it.
C6_DeletedStaysDeleted ==
    \A self \in Procs :
        /\ (pc[self] = "handleGetPost_unlock" /\ id[self] \in Range(deleted))
              => w[self] = HttpError(StatusNotFound)
        /\ pc[self] = "handleDeletePost_unlock"
              => \/ w[self] = HttpError(StatusNotFound)
                 \/ w[self].status = StatusOK /\ Occurrences(deleted, id[self]) = 1

\* C6 witness: post 1 was deleted, another post was inserted afterwards, and
\* GET /posts/1 has answered 404.
C6_Witness ==
    \E self \in Procs :
        /\ pc[self] = "handleGetPost_unlock"
        /\ id[self] \in Range(deleted)
        /\ w[self].status = StatusNotFound
        /\ Len(created) = 2

\* C6 witness for the repeated delete: a second DELETE of a deleted id has
\* answered 404.
C6_WitnessSecondDelete ==
    \E self \in Procs :
        /\ pc[self] = "handleDeletePost_unlock"
        /\ id[self] \in Range(deleted)
        /\ w[self].status = StatusNotFound

\* C7: when GET /posts has written its response and no other request is in
\* progress, the response holds exactly N - M Posts, N the number of
\* successful inserts and M of successful deletes; their ids are pairwise
\* distinct, and each is a post that was inserted and not deleted, with the
\* body it was inserted with.
C7_ListAfterInsertsAndDeletes ==
    \A self \in Procs :
        (/\ pc[self] = "handleGetPosts_unlock"
         /\ \A other \in Procs \ {self} : pc[other] \in {"idle", "done"})
        => LET l == w[self].content
           IN  /\ w[self].status = StatusOK
               /\ w[self].shape = "array"
               /\ Len(l) = Len(created) - Len(deleted)
               /\ \A i, j \in DOMAIN l : i # j => l[i].ID # l[j].ID
               /\ \A i \in DOMAIN l :
                     /\ l[i].ID \notin Range(deleted)
                     /\ \E k \in DOMAIN created :
                           created[k].id = l[i].ID /\ created[k].sent = l[i].Body

\* C7 witness: after two inserts and one delete, GET /posts answers one Post.
C7_Witness ==
    \E self \in Procs :
        /\ pc[self] = "handleGetPosts_unlock"
        /\ \A other \in Procs \ {self} : pc[other] = "idle"
        /\ Len(created) = 2
        /\ Len(deleted) = 1
        /\ Len(w[self].content) = 1


\* The request a step of goroutine self belongs to, and whether self steps.
Steps(self) == pc'[self] # pc[self]
StepRequest(self) == IF pc[self] = "idle" THEN req'[self] ELSE req[self]

IsPost(r) == r.path = Root /\ r.method = "POST"
MethodUnsupported(r) ==
    \/ r.path = Root /\ r.method \notin {"GET", "POST"}
    \/ r.path = Item /\ r.method \notin {"GET", "DELETE"}
IsItemRead(r) == r.path = Item /\ r.method \in {"GET", "DELETE"}

\* C8 as stated: a POST /posts whose body cannot be read or is not
\* well-formed JSON is answered 400.
C8_Original ==
    \A self \in Procs :
        (pc[self] = "done" /\ IsPost(req[self])
         /\ req[self].payload.kind \in {"unreadable", "malformed"})
            => w[self].status = StatusBadRequest

\* C8 amended: a POST /posts whose body is not well-formed JSON is answered
\* 400, and one whose body cannot be read is answered 500.
C8_BadBodyStatus ==
    \A self \in Procs :
        (pc[self] = "done" /\ IsPost(req[self])) =>
            /\ req[self].payload.kind = "malformed" => w[self] = HttpError(StatusBadRequest)
            /\ req[self].payload.kind = "unreadable"
                  => w[self] = HttpError(StatusInternalServerError)

\* C8 witness: a POST with malformed JSON has been answered 400 while the
\* other goroutine has answered a POST with an unreadable body.
C8_Witness ==
    \E self, other \in Procs :
        /\ pc[self] = "done" /\ IsPost(req[self])
        /\ req[self].payload.kind = "malformed"
        /\ w[self].status = StatusBadRequest
        /\ pc[other] = "done" /\ IsPost(req[other])
        /\ req[other].payload.kind = "unreadable"

\* C9 as stated: every request with an unsupported method is answered 405,
\* whatever the id segment, and its steps leave posts and nextID unchanged.
C9_Original ==
    [][\A self \in Procs :
          (Steps(self) /\ MethodUnsupported(StepRequest(self))) =>
              /\ store' = store
              /\ pc'[self] = "done" => w'[self] = HttpError(StatusMethodNotAllowed)]_vars

\* C9 amended: a request with an unsupported method is answered 405 on /posts
\* and on /posts/{id} when the id segment is an integer; when the id segment
\* is not an integer it is answered 400.  Its steps leave posts and nextID
\* unchanged.
C9_UnsupportedMethod ==
    [][\A self \in Procs :
          (Steps(self) /\ MethodUnsupported(StepRequest(self))) =>
              /\ store' = store
              /\ pc'[self] \in {"postsHandler", "postHandler", "done", "idle"}
              /\ pc'[self] = "done" =>
                    w'[self] = IF req[self].path = Item /\ Atoi(req[self].seg).err
                               THEN HttpError(StatusBadRequest)
                               ELSE HttpError(StatusMethodNotAllowed)]_vars

\* C9 witness: PUT /posts/1 has been answered 405 while the store holds a
\* post, and PUT /posts has been answered 405.
C9_Witness ==
    \E self, other \in Procs :
        /\ pc[self] = "done" /\ req[self] = Request("PUT", Item, <<"1">>, NoPayload)
        /\ w[self].status = StatusMethodNotAllowed
        /\ pc[other] = "done" /\ req[other] = Request("PUT", Root, <<>>, NoPayload)
        /\ w[other].status = StatusMethodNotAllowed
        /\ DOMAIN posts = {1}

\* C10: GET and DELETE on /posts/{id} answer 400 when the id segment is not
\* an integer, and 404 when it is an integer that is not a key of posts; a
\* step of such a request changes posts or nextID only when the id is an
\* integer that is a key of posts.
C10_BadOrUnknownId ==
    [][\A self \in Procs :
          (Steps(self) /\ IsItemRead(StepRequest(self))) =>
              /\ (pc[self] = "postHandler" /\ Atoi(req[self].seg).err)
                    => (pc'[self] = "done" /\ w'[self] = HttpError(StatusBadRequest))
              /\ (pc[self] = "postHandler" /\ ~Atoi(req[self].seg).err)
                    => (pc'[self] # "done" /\ id'[self] = Atoi(req[self].seg).id)
              /\ (pc[self] \in {"handleGetPost_respond", "handleDeletePost_check"}
                  /\ id[self] \notin DOMAIN posts)
                    => w'[self] = HttpError(StatusNotFound)
              /\ store' # store
                    => (~Atoi(req[self].seg).err /\ Atoi(req[self].seg).id \in DOMAIN posts)]_vars

\* C10 witness: DELETE /posts/-1 has been answered 404 on a store that holds
\* a post, and GET /posts/a has been answered 400.
C10_Witness ==
    \E self, other \in Procs :
        /\ pc[self] = "handleDeletePost_unlock"
        /\ req[self] = Request("DELETE", Item, <<"-", "1">>, NoPayload)
        /\ w[self].status = StatusNotFound
        /\ pc[other] = "done" /\ req[other] = Request("GET", Item, <<"a">>, NoPayload)
        /\ w[other].status = StatusBadRequest
        /\ DOMAIN posts = {1}


\* C11: nextID is strictly greater than every id a POST has issued: every key
\* of posts, every id stored in posts, every id written in a 201 response,
\* every id of a deleted post, and every id taken from the counter (but the
\* one the holder of postsMu has just taken and is about to step over with
\* nextID++); and no step decreases nextID.
C11_NextIDAboveIssued ==
    /\ [](/\ \A k \in DOMAIN posts : k < nextID /\ posts[k].ID < nextID
          /\ \A i \in DOMAIN created : created[i].id < nextID
          /\ \A i \in DOMAIN deleted : deleted[i] < nextID
          /\ \A self \in Procs :
                (w[self].status = StatusCreated) => w[self].content[1].ID < nextID
          /\ \A i \in DOMAIN issued :
                \/ issued[i] < nextID
                \/ \E self \in Procs :
                      /\ pc[self] = "handlePostPosts_incr"
                      /\ ticket[self] = i
                      /\ holds[self])
    /\ [][nextID' >= nextID]_vars

\* C11 witness: post 1 has been deleted, post 2 is stored and nextID is 3.
C11_Witness ==
    /\ nextID = 3
    /\ deleted = <<1>>
    /\ DOMAIN posts = {2}

\* C12: every key k of posts maps to a Post whose ID is k.
C12_KeyEqualsID ==
    \A k \in DOMAIN posts : posts[k].ID = k

\* C12 witness: the post whose payload named id 7 is stored under key 2 with
\* ID 2, beside post 1.
C12_Witness ==
    /\ DOMAIN posts = {1, 2}
    /\ posts[2] = Post(2, "world")
    /\ posts[1] = Post(1, "hello")


\* The statements at which the response is written and postsMu still held.
UnlockPCs ==
    { "handleGetPosts_unlock", "handlePostPosts_unlock", "handleGetPost_unlock",
      "handleDeletePost_unlock" }

\* Two responses with the same status and content; the Posts of an array
\* count as a collection, in whatever order.
SameResponse(a, b) ==
    /\ a.status = b.status
    /\ a.ctype = b.ctype
    /\ a.shape = b.shape
    /\ IF a.shape = "array"
       THEN /\ Len(a.content) = Len(b.content)
            /\ \A x \in Range(a.content) \cup Range(b.content) :
                  Occurrences(a.content, x) = Occurrences(b.content, x)
       ELSE a.content = b.content

\* C18: the response of every handler that acquired postsMu is the response
\* its request gets when the requests are run whole, one after another, in
\* the order of lock acquisition; the response of a handler that returned
\* without the lock is the one a whole run gives on any store, and such a run
\* changes nothing; and whenever postsMu is free, posts and nextID are those
\* of that sequential run.
C18_SequentialEquivalence ==
    /\ \A self \in Procs :
          /\ pc[self] \in UnlockPCs => SameResponse(w[self], expect[self])
          /\ (pc[self] = "done" /\ expect[self] # NoResponse)
                => SameResponse(w[self], expect[self])
          /\ (pc[self] = "done" /\ expect[self] = NoResponse)
                => /\ SameResponse(w[self], SeqRun(req[self], seqStore).resp)
                   /\ SeqRun(req[self], seqStore).store = seqStore
    /\ (\A self \in Procs : pc[self] \notin CriticalPCs)
          => (posts = seqStore.posts /\ nextID = seqStore.nextID)

\* C18 witness: a POST has written its 201 response with id 2 while the
\* handler of a DELETE answered 200, which held the mutex before it, has
\* returned.
C18_Witness ==
    \E self, other \in Procs :
        /\ pc[self] = "handlePostPosts_unlock"
        /\ w[self].status = StatusCreated
        /\ w[self].content[1].ID = 2
        /\ pc[other] = "done"
        /\ expect[other] = Response(StatusOK, "", "empty", <<>>)


\* The scenario request goroutine self is handling (0 when it handles another).
ScenarioStep(self) ==
    IF reqs <= Len(Scenario) THEN reqs
    ELSE IF req[self] = Scenario[Len(Scenario)] THEN Len(Scenario) ELSE 0

\* C13: the six requests of the scenario, sent one after another to the empty
\* store, are answered 201 with post 1 "hello", 201 with post 2 "world", 200
\* with both posts, 200 with no content, 404 and 400.
C13_Scenario ==
    \A self \in Procs :
        pc[self] = "done" =>
            LET n == ScenarioStep(self)
            IN  /\ n = 1 => w[self] = JsonObject(StatusCreated, Post(1, "hello"))
                /\ n = 2 => w[self] = JsonObject(StatusCreated, Post(2, "world"))
                /\ n = 3 => SameResponse(w[self],
                               JsonArray(StatusOK, << Post(1, "hello"), Post(2, "world") >>))
                /\ n = 4 => w[self] = Response(StatusOK, "", "empty", <<>>)
                /\ n = 5 => w[self] = HttpError(StatusNotFound)
                /\ n = 6 => w[self] = HttpError(StatusBadRequest)

\* C13 witness: the last request of the scenario, GET /posts/abc, has been
\* answered 400 after the five before it were answered.
C13_Witness ==
    \E self \in Procs :
        /\ pc[self] = "done"
        /\ reqs = Len(Scenario)
        /\ req[self] = Scenario[Len(Scenario)]
        /\ w[self].status = StatusBadRequest
        /\ Len(created) = 2
        /\ deleted = <<1>>
        /\ DOMAIN posts = {2}


\* C14: a handler that holds postsMu has written nothing to the client and is
\* not reading the request body.
C14_NoIOUnderLock ==
    \A self \in Procs :
        holds[self] => (w[self] = NoResponse /\ pc[self] # "handlePostPosts")


\* A POST /posts that fails: its body cannot be read or does not parse.
FailingPost(r) ==
    /\ IsPost(r)
    /\ ReadAll(r.payload).err \/ Unmarshal(r.payload, ZeroPost).err

\* C15: no step of a failing POST changes posts or nextID or takes an id, and
\* it never locks postsMu; so whenever no POST holds the mutex, nextID is one
\* more than the number of POSTs that succeeded, and that is the id the next
\* successful POST receives.
C15_FailedPostChangesNothing ==
    /\ [][\A self \in Procs :
            (Steps(self) /\ FailingPost(StepRequest(self))) =>
                /\ store' = store
                /\ issued' = issued
                /\ holds'[self] = FALSE
                /\ pc'[self] = "done" => w'[self].status \in
                                            {StatusBadRequest, StatusInternalServerError}]_vars
    /\ []((\A self \in Procs : pc[self] \notin CriticalPCs)
             => nextID = Len(created) + 1)
    /\ [](\A self \in Procs :
             pc[self] = "handlePostPosts_unlock"
                => w[self].content[1].ID = Len(created) + 1)

\* C15 witness: after one successful POST a POST with malformed JSON has been
\* answered 400, and the POST after it has received id 2.
C15_Witness ==
    \E self, other \in Procs :
        /\ pc[self] = "done"
        /\ req[self] = Request("POST", Root, <<>>, Malformed)
        /\ w[self].status = StatusBadRequest
        /\ Len(created) = 1
        /\ pc[other] = "handlePostPosts_unlock"
        /\ w[other].content[1].ID = 2


\* C16: every entry of posts is the Post its insert returned, with the body
\* sent; a step changes no entry that stays in posts; a step that adds a key
\* is the insert of a POST, adds one new key and removes none; a step that
\* removes a key is the delete of a DELETE of that key, removes that key
\* alone, adds none and leaves nextID unchanged.
C16_StoredPostImmutable ==
    /\ [](\A k \in DOMAIN posts : \A i \in DOMAIN created :
             created[i].id = k => posts[k] = Post(k, created[i].sent))
    /\ [][/\ \A k \in DOMAIN posts \cap DOMAIN posts' : posts'[k] = posts[k]
          /\ (DOMAIN posts' \ DOMAIN posts # {}) =>
                \E self \in Procs :
                    /\ pc[self] = "handlePostPosts_store"
                    /\ Steps(self)
                    /\ DOMAIN posts' = DOMAIN posts \cup {p[self].ID}
          /\ (DOMAIN posts \ DOMAIN posts' # {}) =>
                \E self \in Procs :
                    /\ pc[self] = "handleDeletePost_check"
                    /\ Steps(self)
                    /\ req[self].method = "DELETE"
                    /\ DOMAIN posts' = DOMAIN posts \ {id[self]}
                    /\ nextID' = nextID
          /\ \A self \in Procs :
                (pc[self] = "handlePostPosts_store" /\ Steps(self))
                    => (p[self].ID \notin DOMAIN posts /\ posts'[p[self].ID] = p[self])]_vars

\* C16 witness: posts 1 and 2 were inserted, post 1 has been deleted and post
\* 2 is still what its insert stored.
C16_Witness ==
    /\ deleted = <<1>>
    /\ DOMAIN posts = {2}
    /\ posts[2] = Post(2, "hello")
    /\ \E i \in DOMAIN created : created[i].id = 2 /\ created[i].sent = "hello"


\* The id a POST payload names (0 when it names none).
SentId(payload) ==
    IF payload.kind = "object" /\ "id" \in DOMAIN payload.fields
       /\ payload.fields["id"].type = "number"
    THEN payload.fields["id"].num
    ELSE 0

\* C17: the Post a POST stores has the id nextID had when the handler took
\* it, it is stored under that key and returned with that id in the 201
\* response, whatever id the payload names; no key of posts is an id a
\* payload named unless the counter reached it.
C17_IdIsNextID ==
    /\ [](\A self \in Procs :
             /\ pc[self] \in {"handlePostPosts_store", "handlePostPosts_encode",
                              "handlePostPosts_unlock"}
                   => p[self].ID = nextID - 1
             /\ pc[self] \in {"handlePostPosts_encode", "handlePostPosts_unlock"}
                   => (nextID - 1 \in DOMAIN posts /\ posts[nextID - 1] = p[self])
             /\ pc[self] = "handlePostPosts_unlock"
                   => w[self] = JsonObject(StatusCreated,
                                           Post(nextID - 1, SentBody(req[self].payload))))
    /\ [](\A k \in DOMAIN posts : k <= Len(issued))
    /\ [][\A self \in Procs :
            (pc[self] = "handlePostPosts_id" /\ Steps(self)) => p'[self].ID = nextID]_vars

\* C17 witness: the POST whose payload names id 7 has stored its Post under
\* key 1 and answered 201 with id 1.
C17_Witness ==
    \E self \in Procs :
        /\ pc[self] = "handlePostPosts_unlock"
        /\ SentId(req[self].payload) = 7
        /\ w[self] = JsonObject(StatusCreated, Post(1, "world"))
        /\ DOMAIN posts = {1}


IsGet(r) == r.method = "GET"

\* C19: no step of a GET /posts or a GET /posts/{id} changes posts or
\* nextID, whether the request is answered 200, 400 or 404; run alone
\* against the store, such a request leaves it as it was.
C19_ReadsChangeNothing ==
    /\ [][\A self \in Procs :
            (Steps(self) /\ IsGet(StepRequest(self)))
                => (posts' = posts /\ nextID' = nextID /\ seqStore' = seqStore)]_vars
    /\ [](\A self \in Procs :
             (pc[self] = "done" /\ IsGet(req[self]))
                 => w[self].status \in {StatusOK, StatusBadRequest, StatusNotFound})

\* C19 witness: with Post 1 stored and nextID 2, a GET /posts has been
\* answered 200 with that Post and a GET /posts/{id} has been answered 404.
C19_Witness ==
    /\ DOMAIN posts = {1}
    /\ nextID = 2
    /\ \E a, b \in Procs :
          /\ pc[a] = "done" /\ IsGet(req[a]) /\ req[a].path = Root
          /\ w[a] = JsonArray(StatusOK, << posts[1] >>)
          /\ pc[b] = "done" /\ IsGet(req[b]) /\ req[b].path = Item
          /\ w[b] = HttpError(StatusNotFound)

\* C19 witness: a GET /posts/{id} whose id does not parse has been answered
\* 400 with Post 1 stored.
C19_WitnessBadId ==
    /\ DOMAIN posts = {1}
    /\ \E a \in Procs :
          /\ pc[a] = "done" /\ IsGet(req[a]) /\ req[a].path = Item
          /\ w[a] = HttpError(StatusBadRequest)

====
